---- MODULE Spec2Model ----
(***************************************************************************)
(* Model of bin/get_rirstats.py: download the five RIR "extended"          *)
(* delegation files, parse them, and write every IPv4/IPv6 range as CSV.   *)
(*                                                                         *)
(* Strings are sequences of tokens.  The tokens " " (whitespace), "#" and  *)
(* "|" are single characters; every other token is a word that contains    *)
(* none of the three.  r.text is kept as the list str.splitlines() yields. *)
(***************************************************************************)
EXTENDS Integers, Sequences, FiniteSets, TLC

\* ---------------------------------------------------------------- bounds
\* Width of an IPv4 address in the model (32 in ipaddress.IPv4Address).
AddrBits == 4
\* Longest response body, in lines.
MaxLines == 3
\* Lines served by all five registries together.
MaxTotalLines == 4

None == [none |-> TRUE]

\* ------------------------------------------------------ program constants
RIRSTATS_URL == <<"afrinic", "apnic", "arin", "lacnic", "ripencc">>

\* ------------------------------------------------------- string helpers
WS == " "
Hash == "#"
Bar == "|"

RECURSIVE lstrip(_)
lstrip(s) == IF s # <<>> /\ Head(s) = WS THEN lstrip(Tail(s)) ELSE s

RECURSIVE rstrip(_)
rstrip(s) ==
    IF s # <<>> /\ s[Len(s)] = WS THEN rstrip(SubSeq(s, 1, Len(s) - 1)) ELSE s

\* str.strip()
strip(s) == rstrip(lstrip(s))

\* str.split("|"): always at least one field, empty fields kept
RECURSIVE split(_)
split(s) ==
    IF \E i \in 1..Len(s) : s[i] = Bar
    THEN LET i == CHOOSE j \in 1..Len(s) :
                      s[j] = Bar /\ \A k \in 1..(j - 1) : s[k] # Bar
         IN  <<SubSeq(s, 1, i - 1)>> \o split(SubSeq(s, i + 1, Len(s)))
    ELSE <<s>>

\* ----------------------------------------------------- literal tables
\* Decimal literals and the integers they denote: NumStr[n + 1] denotes n.
NumStr ==
    <<"0", "1", "2", "3", "4", "5", "6", "7", "8", "9", "10", "11", "12",
      "13", "14", "15", "16", "17", "18", "19", "20", "21", "22", "23",
      "24", "25", "26", "27", "28", "29", "30", "31", "32", "33", "34",
      "35", "36", "37", "38", "39", "40">>

\* Dotted IPv4 literals: V4Str[n + 1] denotes address n.
V4Str ==
    <<"0.0.0.0", "0.0.0.1", "0.0.0.2", "0.0.0.3", "0.0.0.4", "0.0.0.5",
      "0.0.0.6", "0.0.0.7", "0.0.0.8", "0.0.0.9", "0.0.0.10", "0.0.0.11",
      "0.0.0.12", "0.0.0.13", "0.0.0.14", "0.0.0.15", "0.0.0.16",
      "0.0.0.17", "0.0.0.18", "0.0.0.19", "0.0.0.20", "0.0.0.21",
      "0.0.0.22", "0.0.0.23", "0.0.0.24", "0.0.0.25", "0.0.0.26",
      "0.0.0.27", "0.0.0.28", "0.0.0.29", "0.0.0.30", "0.0.0.31",
      "0.0.0.32", "0.0.0.33", "0.0.0.34", "0.0.0.35", "0.0.0.36",
      "0.0.0.37", "0.0.0.38", "0.0.0.39", "0.0.0.40">>

\* IPv6 literals: V6Str[n + 1] denotes address n.
V6Str ==
    <<"::", "::1", "::2", "::3">>

IndexIn(tab, tok) == CHOOSE i \in 1..Len(tab) : tab[i] = tok

InTable(tab, tok) == \E i \in 1..Len(tab) : tab[i] = tok

Pow2(n) == 2 ^ n

\* int(text): surrounding whitespace is ignored, then one decimal literal
\* ("+0000" is the UTC offset the registries publish, a serial is a date).
int_ok(f) ==
    LET t == strip(f)
    IN  Len(t) = 1 /\ (InTable(NumStr, t[1]) \/ t[1] \in {"+0000", "20230115"})

int(f) ==
    LET t == strip(f)[1]
    IN  CASE t = "+0000" -> 0
          [] t = "20230115" -> 20230115
          [] OTHER -> IndexIn(NumStr, t) - 1

\* float(text), in tenths; ValueError is float_ok = FALSE
float_ok(f) ==
    LET t == strip(f)
    IN  Len(t) = 1 /\ (t[1] \in {"0.0", "1.9", "2.0", "2.3", "3.0"} \/ int_ok(f))

float(f) ==
    LET t == strip(f)[1]
    IN  CASE t = "0.0" -> 0
          [] t = "1.9" -> 19
          [] t = "2.0" -> 20
          [] t = "2.3" -> 23
          [] t = "3.0" -> 30
          [] OTHER -> 10 * int(f)

\* ipaddress.IPv4Address(text): AddressValueError unless a dotted literal
\* inside the address space
IPv4Address_ok(f) ==
    Len(f) = 1 /\ InTable(V4Str, f[1]) /\ IndexIn(V4Str, f[1]) - 1 < Pow2(AddrBits)

IPv4Address(f) == [cls |-> "IPv4Address", ip |-> IndexIn(V4Str, f[1]) - 1]

IPv6Address_ok(f) == Len(f) = 1 /\ InTable(V6Str, f[1])

IPv6Address(f) == [cls |-> "IPv6Address", ip |-> IndexIn(V6Str, f[1]) - 1]

\* What get_date_from_yyyymmdd reads off a date token: its length, whether
\* str.isdigit() holds, and the year, month and day int() gives ("2023011^2"
\* ends in a superscript two: a digit to isdigit(), a ValueError to int()).
DateToken(t) ==
    CASE t = "20230115" -> [len |-> 8, isdigit |-> TRUE, int_ok |-> TRUE,
                            y |-> 2023, m |-> 1, d |-> 15]
      [] t = "20231301" -> [len |-> 8, isdigit |-> TRUE, int_ok |-> TRUE,
                            y |-> 2023, m |-> 13, d |-> 1]
      [] t = "2023011"  -> [len |-> 7, isdigit |-> TRUE, int_ok |-> TRUE,
                            y |-> 2023, m |-> 1, d |-> 1]
      [] t = "2023011^2" -> [len |-> 8, isdigit |-> TRUE, int_ok |-> FALSE,
                            y |-> 2023, m |-> 1, d |-> 0]
      [] OTHER -> [len |-> 0, isdigit |-> FALSE, int_ok |-> FALSE,
                   y |-> 0, m |-> 0, d |-> 0]

DaysIn(y, m) ==
    IF m = 2 THEN (IF (y % 4 = 0 /\ y % 100 # 0) \/ y % 400 = 0 THEN 29 ELSE 28)
    ELSE IF m \in {4, 6, 9, 11} THEN 30 ELSE 31

\* get_date_from_yyyymmdd raises only through int() on a non-decimal digit
get_date_raises(f) ==
    /\ Len(f) = 1
    /\ DateToken(f[1]).len = 8
    /\ DateToken(f[1]).isdigit
    /\ ~DateToken(f[1]).int_ok

get_date_from_yyyymmdd(f) ==
    IF Len(f) # 1 \/ DateToken(f[1]).len # 8 \/ ~DateToken(f[1]).isdigit
    THEN None
    ELSE LET t == DateToken(f[1])
         IN  IF t.y \in 1..9999 /\ t.m \in 1..12 /\ t.d \in 1..DaysIn(t.y, t.m)
             THEN [year |-> t.y, month |-> t.m, day |-> t.d]
             ELSE None

\* ------------------------------------------------------------- logging
\* log_error / log_info: inspect.stack()[1][3] is the calling function
log_error(fn) == [level |-> "ERROR", fn |-> fn]

log_info(what) == [level |-> "INFO", fn |-> what]

\* ---------------------------------------------------------- outcomes
\* A call returns a value, calls exit(1), or raises out of the program.
Return(value, msgs) == [kind |-> "return", value |-> value, log |-> msgs]

Exit1(msgs) == [kind |-> "exit", value |-> None, log |-> msgs]

\* ------------------------------------------------- parse_version_record
\* "not version or 3.0 <= version < 2.0 or len(fields) != 7", version in
\* tenths; a float that did not parse is None
VersionRejected(fields) ==
    \/ ~float_ok(fields[1])
    \/ float(fields[1]) = 0
    \/ (30 <= float(fields[1]) /\ float(fields[1]) < 20)
    \/ Len(fields) # 7

\* the try block of the seven assignments
VersionFieldsRaise(fields) ==
    \/ ~int_ok(fields[3])
    \/ ~int_ok(fields[4])
    \/ get_date_raises(fields[5])
    \/ get_date_raises(fields[6])
    \/ ~int_ok(fields[7])

parse_version_record(row) ==
    LET fields == split(row)
    IN  IF VersionRejected(fields)
        THEN Exit1(<<log_error("parse_version_record")>>)
        ELSE IF VersionFieldsRaise(fields)
        THEN Exit1(<<log_error("parse_version_record")>>)
        ELSE Return([version   |-> float(fields[1]),
                     registry  |-> fields[2],
                     serial    |-> int(fields[3]),
                     records   |-> int(fields[4]),
                     startdate |-> get_date_from_yyyymmdd(fields[5]),
                     enddate   |-> get_date_from_yyyymmdd(fields[6]),
                     UTCoffset |-> int(fields[7])], <<>>)

\* --------------------------------------------------------- parse_record
\* a length check that also turns away rows without an opaque id
TooFewFieldsNeedsAll(fields) == Len(fields) < 8

\* "if len(fields) < 6"
TooFewFields(fields) == Len(fields) < 6

\* a short row treated as the other malformed rows are: exit(1)
ShortRowIsFatal(row) == Exit1(<<log_error("parse_record")>>)

\* what parse_record does with a row of too few fields: log it, return None
ShortRowOutcome(row) == Return(None, <<log_error("parse_record")>>)

\* the summary branch: int(fields[4]) is the only call that can raise
SummaryResult(fields) ==
    IF ~int_ok(fields[5])
    THEN Return(None, <<log_error("parse_record")>>)
    ELSE Return([registry |-> fields[1],
                 type     |-> fields[3],
                 count    |-> int(fields[5]),
                 summary  |-> fields[6]], <<>>)

\* the detail branch raises inside its try block: a start or value that does
\* not parse, a date of non-decimal digits, or no fields[6]
DetailRaises(fields) ==
    \/ /\ fields[3] = <<"asn">>
       /\ (~int_ok(fields[4]) \/ ~int_ok(fields[5]))
    \/ /\ fields[3] = <<"ipv4">>
       /\ (~IPv4Address_ok(fields[4]) \/ ~int_ok(fields[5]))
    \/ /\ fields[3] = <<"ipv6">>
       /\ (~IPv6Address_ok(fields[4]) \/ ~int_ok(fields[5]))
    \/ get_date_raises(fields[6])
    \/ Len(fields) < 7

\* "if len(fields) >= 8: result['opaque_id'] = fields[7] else None"
OpaqueId(fields) == IF Len(fields) >= 8 THEN [str |-> fields[8]] ELSE None

\* the keys every detail row gets
DetailCommon(fields) ==
    [registry  |-> fields[1],
     cc        |-> fields[2],
     date      |-> get_date_from_yyyymmdd(fields[6]),
     status    |-> fields[7],
     opaque_id |-> OpaqueId(fields)]

\* the keys the type of the row adds: none for an unknown type
DetailTyped(fields) ==
    CASE fields[3] = <<"asn">> ->
             [type  |-> fields[3],
              start |-> [cls |-> "int", ip |-> int(fields[4])],
              value |-> int(fields[5])]
      [] fields[3] = <<"ipv4">> ->
             [type  |-> fields[3],
              start |-> IPv4Address(fields[4]),
              value |-> int(fields[5])]
      [] fields[3] = <<"ipv6">> ->
             [type  |-> fields[3],
              start |-> IPv6Address(fields[4]),
              value |-> int(fields[5])]
      [] OTHER -> <<>>

DetailResult(fields) ==
    IF DetailRaises(fields)
    THEN Exit1(<<log_error("parse_record")>>)
    ELSE Return(DetailCommon(fields) @@ DetailTyped(fields), <<>>)

\* a final filter that only asks for a type
KeepAnyType(result) == "type" \in DOMAIN result

\* "if 'type' in result and result['type'] in ('ipv4', 'ipv6')"
KeepResult(result) ==
    /\ "type" \in DOMAIN result
    /\ result.type \in {<<"ipv4">>, <<"ipv6">>}

parse_record(row) ==
    LET fields == split(row)
    IN  IF TooFewFields(fields)
        THEN ShortRowOutcome(row)
        ELSE LET o == IF fields[6] = <<"summary">>
                      THEN SummaryResult(fields)
                      ELSE DetailResult(fields)
             IN  IF o.kind = "return" /\ o.value # None
                 THEN IF KeepResult(o.value) THEN o ELSE Return(None, o.log)
                 ELSE o

\* ------------------------------------------------------------ inputs
RECURSIVE join(_)
\* "|".join(fields)
join(fields) ==
    IF Len(fields) = 0 THEN <<>>
    ELSE IF Len(fields) = 1 THEN fields[1]
    ELSE fields[1] \o <<Bar>> \o join(Tail(fields))

\* a line of one-word fields
Row(words) == join([i \in 1..Len(words) |-> <<words[i]>>])

SeqsUpTo(S, n) == UNION {[1..m -> S] : m \in 0..n}

LastV4 == V4Str[Pow2(AddrBits)]

VersionLine == Row(<<"2.3", "afrinic", "20230115", "2", "20230115", "20230115", "+0000">>)

Ipv4Line(start, count) ==
    Row(<<"afrinic", "ZA", "ipv4", start, count, "20230115", "allocated", "F36B9F4B">>)

Ipv6Line(start, prefix) ==
    Row(<<"ripencc", "NL", "ipv6", start, prefix, "20231301", "assigned", "A91A7381">>)

\* Lines a registry may serve, as str.splitlines() yields them.
Lines ==
    { <<>>,
      <<WS>>,
      <<Hash, "comment">>,
      <<WS>> \o VersionLine \o <<WS>>,
      Row(<<"x", "afrinic", "20230115", "2", "20230115", "20230115", "+0000">>),
      Ipv4Line("0.0.0.5", "3"),
      Ipv4Line("0.0.0.0", "2"),
      Ipv4Line("0.0.0.2", "0"),
      Ipv4Line(LastV4, "2"),
      Ipv6Line("::1", "32"),
      Row(<<"afrinic", "ZA", "ipv4", "0.0.0.0", "2">>) }

\* The response of requests.get: a status code and the lines of its text.
Responses(budget) ==
    { [status_code |-> 200, text |-> t] :
          t \in SeqsUpTo(Lines, IF budget < MaxLines THEN budget ELSE MaxLines) }
    \cup { [status_code |-> 404, text |-> << <<"Not", WS, "Found">> >>] }

\* ------------------------------------------------------------- state
VARIABLES
    pc,             \* where the run is
    url,            \* index into RIRSTATS_URL of main's loop
    r,              \* get_stats_list_from_url: the response
    line,           \* get_stats_list_from_url: lines of r.text consumed
    stats_list,     \* the rows of the source being processed
    v,              \* parse_stats_list: the version record
    item,           \* parse_stats_list: items consumed
    result,         \* parse_stats_list: the detail records of this source
    ranges,         \* main: the records of all sources
    sorted_ranges,  \* write_intermediate_stats_to_csv: the sorted records
    k,              \* write_intermediate_stats_to_csv: records consumed
    stdout,         \* what was written to sys.stdout
    origin,         \* for each line of stdout, the index in sorted_ranges of
                    \* the record it was written for (0 for the header)
    log,            \* the messages handed to the logger
    exc,            \* the exception that ended the run, if one escaped
    fetched,        \* the urls requested so far
    served          \* lines served so far

vars == <<pc, url, r, line, stats_list, v, item, result, ranges,
          sorted_ranges, k, stdout, origin, log, exc, fetched, served>>

Init ==
    /\ pc = "fetch"
    /\ url = 1
    /\ r = None
    /\ line = 0
    /\ stats_list = <<>>
    /\ v = None
    /\ item = 0
    /\ result = <<>>
    /\ ranges = <<>>
    /\ sorted_ranges = <<>>
    /\ k = 0
    /\ stdout = <<>>
    /\ origin = <<>>
    /\ log = <<>>
    /\ exc = None
    /\ fetched = <<>>
    /\ served = 0

\* ---------------------------------------------- get_stats_list_from_url
\* a status check that lets every response through
StatusNeverFails(resp) == FALSE

\* "if r.status_code != 200"
StatusFails(resp) == resp.status_code # 200

\* requests.get raises: the error is logged and the run exits
GetRaises ==
    /\ pc = "fetch"
    /\ pc' = "exit1"
    /\ log' = log \o <<log_info("starting download"),
                       log_error("get_stats_list_from_url")>>
    /\ fetched' = Append(fetched, url)
    /\ UNCHANGED <<url, r, line, stats_list, v, item, result, ranges,
                   sorted_ranges, k, stdout, origin, exc, served>>

\* requests.get returns a response
Get ==
    /\ pc = "fetch"
    /\ \E resp \in Responses(MaxTotalLines - served) :
          /\ r' = resp
          /\ fetched' = Append(fetched, url)
          /\ IF StatusFails(resp)
             THEN /\ pc' = "exit1"
                  /\ log' = log \o <<log_info("starting download"),
                                     log_error("get_stats_list_from_url")>>
                  /\ UNCHANGED served
             ELSE /\ pc' = "ingest"
                  /\ log' = Append(log, log_info("starting download"))
                  /\ served' = served + Len(resp.text)
    /\ line' = 0
    /\ stats_list' = <<>>
    /\ UNCHANGED <<url, v, item, result, ranges, sorted_ranges, k, stdout,
                   origin, exc>>

\* one pass of "for row in r.text.splitlines()"
IngestRow ==
    /\ pc = "ingest"
    /\ line < Len(r.text)
    /\ line' = line + 1
    /\ LET row == strip(r.text[line + 1])
       IN  IF row = <<>>
           THEN \* row[0] of an empty string
                /\ pc' = "uncaught"
                /\ exc' = [type |-> "IndexError", line |-> 186]
                /\ UNCHANGED stats_list
           ELSE /\ stats_list' = IF row[1] = Hash
                                 THEN stats_list
                                 ELSE Append(stats_list, row)
                /\ UNCHANGED <<pc, exc>>
    /\ UNCHANGED <<url, r, v, item, result, ranges, sorted_ranges, k, stdout,
                   origin, log, fetched, served>>

\* the loop is over: get_stats_list_from_url returns, parse_stats_list starts
IngestReturn ==
    /\ pc = "ingest"
    /\ line = Len(r.text)
    /\ pc' = "parse"
    /\ r' = None
    /\ log' = Append(log, log_info("completed download"))
    /\ v' = None
    /\ item' = 0
    /\ result' = <<>>
    /\ line' = 0
    /\ UNCHANGED <<url, stats_list, ranges, sorted_ranges, k, stdout,
                   origin, exc, fetched, served>>

\* ---------------------------------------------------- parse_stats_list
\* one pass of "for item in stats_list": the first row is handed to
\* parse_version_record, every other row to parse_record
ParseItem ==
    /\ pc = "parse"
    /\ item < Len(stats_list)
    /\ item' = item + 1
    /\ LET row == stats_list[item + 1]
           o   == IF v = None THEN parse_version_record(row) ELSE parse_record(row)
       IN  /\ log' = log \o o.log
           /\ pc' = IF o.kind = "exit" THEN "exit1" ELSE pc
           /\ v' = IF v = None /\ o.kind = "return" THEN o.value ELSE v
           /\ result' = IF /\ v # None
                           /\ o.kind = "return"
                           /\ o.value # None
                           /\ "summary" \notin DOMAIN o.value
                        THEN Append(result, o.value)
                        ELSE result
    /\ UNCHANGED <<url, r, line, stats_list, ranges, sorted_ranges, k, stdout,
                   origin, exc, fetched, served>>

\* parse_stats_list returns; main extends ranges, clears stats_list and goes
\* on to the next url, or to the CSV after the last one
ParseReturn ==
    /\ pc = "parse"
    /\ item = Len(stats_list)
    /\ ranges' = ranges \o result
    /\ stats_list' = <<>>
    /\ result' = <<>>
    /\ v' = None
    /\ IF url < Len(RIRSTATS_URL)
       THEN url' = url + 1 /\ pc' = "fetch"
       ELSE url' = url /\ pc' = "write"
    /\ item' = 0
    /\ UNCHANGED <<r, line, sorted_ranges, k, stdout, origin, log, exc,
                   fetched, served>>

\* ------------------------------------------- ipaddress (standard library)
Min(a, b) == IF a <= b THEN a ELSE b

ALL_ONES == Pow2(AddrBits) - 1

RECURSIVE bit_length(_)
\* int.bit_length()
bit_length(n) == IF n = 0 THEN 0 ELSE 1 + bit_length(n \div 2)

RECURSIVE TrailingZeros(_)
TrailingZeros(n) == IF n % 2 = 1 THEN 0 ELSE 1 + TrailingZeros(n \div 2)

\* ipaddress._count_righthand_zero_bits
count_righthand_zero_bits(number, bits) ==
    IF number = 0 THEN bits ELSE Min(bits, TrailingZeros(number))

\* the size, in bits, of the next network summarize_address_range yields
nbits(first_int, last_int) ==
    Min(count_righthand_zero_bits(first_int, AddrBits),
        bit_length(last_int - first_int + 1) - 1)

RECURSIVE summarize_address_range(_, _)
\* ipaddress.summarize_address_range(first, last), first <= last
summarize_address_range(first_int, last_int) ==
    IF first_int > last_int THEN <<>>
    ELSE LET n    == nbits(first_int, last_int)
             next == first_int + Pow2(n)
         IN  <<[network_address |-> first_int, prefixlen |-> AddrBits - n]>>
             \o (IF next - 1 = ALL_ONES THEN <<>>
                 ELSE summarize_address_range(next, last_int))

\* ------------------------------------ write_intermediate_stats_to_csv
Header == [header |-> "type,subnet,registry,country,date,status,reg_id"]

RECURSIVE InsertByStart(_, _)
\* x goes behind every record whose start is not greater: the sort is stable
InsertByStart(x, s) ==
    IF s = <<>> THEN <<x>>
    ELSE IF s[Len(s)].start.ip <= x.start.ip THEN Append(s, x)
    ELSE Append(InsertByStart(x, SubSeq(s, 1, Len(s) - 1)), s[Len(s)])

RECURSIVE SortFrom(_, _)
SortFrom(done, rest) ==
    IF rest = <<>> THEN done
    ELSE SortFrom(InsertByStart(Head(rest), done), Tail(rest))

\* sorted(..., key=lambda k: k["start"])
sorted(s) == SortFrom(<<>>, s)

OfClass(s, cls) == SelectSeq(s, LAMBDA i : i.start.cls = cls)

\* the records as they came, unsorted
Unsorted(rs) == rs

\* lines 225-228: the IPv4 records by start, then the IPv6 records by start
SortedRanges(rs) ==
    sorted(OfClass(rs, "IPv4Address")) \o sorted(OfClass(rs, "IPv6Address"))

\* the last address taken one too far
LastAddressOnePast(first_int, value) == first_int + value

\* "last_address = first_address + (r['value'] - 1)"
LastAddress(first_int, value) == first_int + (value - 1)

\* str(date), for the dates the inputs hold
isoformat(d) ==
    IF d = [year |-> 2023, month |-> 1, day |-> 15]
    THEN <<"2023-01-15">>
    ELSE <<"date">>

\* the seven values one f-string writes
CsvRow(rec, subnet) ==
    [type     |-> rec.type,
     subnet   |-> subnet,
     registry |-> rec.registry,
     country  |-> rec.cc,
     date     |-> IF rec.date # None THEN isoformat(rec.date) ELSE <<>>,
     status   |-> rec.status,
     reg_id   |-> IF rec.opaque_id # None /\ rec.opaque_id.str # <<>>
                  THEN rec.opaque_id.str ELSE <<>>]

\* the header is written and the records are sorted
WriteHeader ==
    /\ pc = "write"
    /\ pc' = "rows"
    /\ log' = Append(log, log_info("started CSV"))
    /\ stdout' = Append(stdout, Header)
    /\ origin' = Append(origin, 0)
    /\ sorted_ranges' = SortedRanges(ranges)
    /\ k' = 0
    /\ UNCHANGED <<url, r, line, stats_list, v, item, result, ranges, exc,
                   fetched, served>>

\* every address written as a network of its own
OneNetworkPerAddress(first_int, last_int) ==
    [i \in 1..(last_int - first_int + 1) |->
        [network_address |-> first_int + i - 1, prefixlen |-> AddrBits]]

\* "for rr in ipaddress.summarize_address_range(first_address, last_address)"
Networks(first_int, last_int) == summarize_address_range(first_int, last_int)

\* the rows one record of sorted_ranges gets
RowsOf(rec) ==
    IF rec.type = <<"ipv4">>
    THEN LET nets == Networks(rec.start.ip, LastAddress(rec.start.ip, rec.value))
         IN  [i \in 1..Len(nets) |-> CsvRow(rec, nets[i])]
    ELSE IF rec.type = <<"ipv6">>
    THEN <<CsvRow(rec, [network_address |-> rec.start.ip, prefixlen |-> rec.value])>>
    ELSE <<>>

\* one pass of "for r in sorted_ranges"
WriteRecord ==
    /\ pc = "rows"
    /\ k < Len(sorted_ranges)
    /\ k' = k + 1
    /\ LET rec  == sorted_ranges[k + 1]
           last == LastAddress(rec.start.ip, rec.value)
       IN  IF rec.type = <<"ipv4">> /\ (last < 0 \/ last > ALL_ONES)
           THEN \* IPv4Address.__add__ builds an address outside the space
                /\ pc' = "uncaught"
                /\ exc' = [type |-> "AddressValueError", line |-> 232]
                /\ UNCHANGED <<stdout, origin>>
           ELSE IF rec.type = <<"ipv4">> /\ rec.start.ip > last
           THEN \* summarize_address_range: first > last
                /\ pc' = "uncaught"
                /\ exc' = [type |-> "ValueError", line |-> 234]
                /\ UNCHANGED <<stdout, origin>>
           ELSE /\ stdout' = stdout \o RowsOf(rec)
                /\ origin' = origin \o [i \in 1..Len(RowsOf(rec)) |-> k + 1]
                /\ UNCHANGED <<pc, exc>>
    /\ UNCHANGED <<url, r, line, stats_list, v, item, result, ranges,
                   sorted_ranges, log, fetched, served>>

\* the loop is over: the row count is logged and main calls exit(0)
WriteReturn ==
    /\ pc = "rows"
    /\ k = Len(sorted_ranges)
    /\ pc' = "exit0"
    /\ log' = Append(log, log_info("completed CSV"))
    /\ UNCHANGED <<url, r, line, stats_list, v, item, result, ranges,
                   sorted_ranges, k, stdout, origin, exc, fetched, served>>

\* ------------------------------------------------------ the program
Next ==
    \/ GetRaises
    \/ Get
    \/ IngestRow
    \/ IngestReturn
    \/ ParseItem
    \/ ParseReturn
    \/ WriteHeader
    \/ WriteRecord
    \/ WriteReturn

Spec == Init /\ [][Next]_vars

\* ------------------------------------------- parse_stats_list on one source
\* Rows get_stats_list_from_url can return: stripped, not empty, no comment.
Items ==
    { VersionLine,
      Row(<<"1.9", "afrinic", "20230115", "2", "20230115", "20230115", "+0000">>),
      Row(<<"3.0", "afrinic", "20230115", "2", "20230115", "20230115", "+0000">>),
      Row(<<"x", "afrinic", "20230115", "2", "20230115", "20230115", "+0000">>),
      Row(<<"2.3", "afrinic", "20230115", "2", "20230115", "20230115">>),
      Row(<<"2.3", "afrinic", "serial", "2", "20230115", "20230115", "+0000">>),
      Ipv4Line("0.0.0.5", "3"),
      Row(<<"afrinic", "ZA", "ipv4", "0.0.0.0", "2", "20230115", "allocated">>),
      Row(<<"afrinic", "ZA", "ipv4", "0.0.0.0", "2", "20230115">>),
      Row(<<"afrinic", "ZA", "ipv4", "0.0.0.0", "2">>),
      Row(<<"afrinic", "ZA", "ipv4", "0.0.0", "2", "20230115", "allocated", "F36B9F4B">>),
      Row(<<"afrinic", "ZA", "ipv4", "0.0.0.4", "4", "2023011^2", "allocated", "F36B9F4B">>),
      Ipv6Line("::1", "32"),
      Row(<<"ripencc", "NL", "ipv6", "::2", "32", "2023011", "assigned">>),
      Row(<<"afrinic", "ZA", "asn", "36", "1", "20230115", "allocated", "F36B9F4B">>),
      Row(<<"afrinic", "ZA", "other", "36", "1", "20230115", "allocated", "F36B9F4B">>),
      Row(<<"afrinic", "*", "ipv4", "*", "2", "summary">>),
      Row(<<"afrinic", "*", "asn", "*", "1", "summary">>),
      Row(<<"afrinic", "*", "ipv6", "*", "many", "summary">>) }

\* The run when the first four registries served no row and the last one
\* served the rows of stats_list.
InitParse ==
    /\ pc = "parse"
    /\ url = Len(RIRSTATS_URL)
    /\ r = None
    /\ line = 0
    /\ stats_list \in SeqsUpTo(Items, MaxLines)
    /\ v = None
    /\ item = 0
    /\ result = <<>>
    /\ ranges = <<>>
    /\ sorted_ranges = <<>>
    /\ k = 0
    /\ stdout = <<>>
    /\ origin = <<>>
    /\ log = [i \in 1..(2 * Len(RIRSTATS_URL)) |->
                 IF i % 2 = 1 THEN log_info("starting download")
                 ELSE log_info("completed download")]
    /\ exc = None
    /\ fetched = [i \in 1..Len(RIRSTATS_URL) |-> i]
    /\ served = Len(stats_list)

NextParse ==
    \/ ParseItem
    \/ ParseReturn
    \/ WriteHeader
    \/ WriteRecord
    \/ WriteReturn

SpecParse == InitParse /\ [][NextParse]_vars

\* ---------------------------- write_intermediate_stats_to_csv on its input
\* Longest list of records handed to write_intermediate_stats_to_csv.
MaxRecords == 3

\* the record parse_record makes of a row
RecordOf(row) == parse_record(row).value

\* every IPv4 record of the address space, counts below 1 and counts that
\* leave the space included
AllIpv4Records ==
    { RecordOf(Ipv4Line(V4Str[s + 1], NumStr[c + 1])) :
          s \in 0..ALL_ONES, c \in 0..(Pow2(AddrBits) + 1) }

SomeRecords ==
    { RecordOf(Ipv4Line("0.0.0.5", "3")),
      RecordOf(Ipv4Line("0.0.0.0", "2")),
      RecordOf(Row(<<"arin", "US", "ipv4", "0.0.0.5", "1", "x", "assigned">>)),
      RecordOf(Ipv6Line("::2", "32")),
      RecordOf(Ipv6Line("::1", "24")) }

\* The run when the five registries served the rows of these records.
InitCsv ==
    /\ pc = "write"
    /\ url = Len(RIRSTATS_URL)
    /\ r = None
    /\ line = 0
    /\ stats_list = <<>>
    /\ v = None
    /\ item = 0
    /\ result = <<>>
    /\ ranges \in {<<rec>> : rec \in AllIpv4Records}
                     \cup SeqsUpTo(SomeRecords, MaxRecords)
    /\ sorted_ranges = <<>>
    /\ k = 0
    /\ stdout = <<>>
    /\ origin = <<>>
    /\ log = [i \in 1..(2 * Len(RIRSTATS_URL)) |->
                 IF i % 2 = 1 THEN log_info("starting download")
                 ELSE log_info("completed download")]
    /\ exc = None
    /\ fetched = [i \in 1..Len(RIRSTATS_URL) |-> i]
    /\ served = Len(ranges) + 1

NextCsv ==
    \/ WriteHeader
    \/ WriteRecord
    \/ WriteReturn

SpecCsv == InitCsv /\ [][NextCsv]_vars

\* ---------------------------------------------------------- properties
\* The lines of stdout written for record idx of sorted_ranges.
LinesFor(idx) == {i \in 1..Len(stdout) : origin[i] = idx}

BlockSize(b) == Pow2(AddrBits - b.prefixlen)

BlockAddrs(b) == b.network_address .. (b.network_address + BlockSize(b) - 1)

\* An IPv4 record of at least one address that stays inside the space.
InSpace(rec) ==
    /\ rec.type = <<"ipv4">>
    /\ rec.value >= 1
    /\ rec.start.ip + rec.value - 1 <= ALL_ONES

RECURSIVE SumOfSizes(_)
SumOfSizes(P) ==
    IF P = {} THEN 0
    ELSE LET i == CHOOSE x \in P : TRUE
         IN  BlockSize(stdout[i].subnet) + SumOfSizes(P \ {i})

\* C1: the blocks written for an IPv4 record (start s, count c >= 1, inside
\* the address space) are each aligned to their size, pairwise disjoint, and
\* cover exactly the addresses s .. s+c-1; their sizes sum to c.
C1_BlocksCoverRangeExactly ==
    \A idx \in 1..k :
        LET rec == sorted_ranges[idx]
            P   == LinesFor(idx)
        IN  InSpace(rec) =>
              /\ \A i \in P :
                    /\ stdout[i].subnet.prefixlen \in 0..AddrBits
                    /\ stdout[i].subnet.network_address
                           % BlockSize(stdout[i].subnet) = 0
              /\ \A i, j \in P :
                    i # j => BlockAddrs(stdout[i].subnet)
                                 \cap BlockAddrs(stdout[j].subnet) = {}
              /\ UNION {BlockAddrs(stdout[i].subnet) : i \in P}
                     = rec.start.ip .. (rec.start.ip + rec.value - 1)
              /\ SumOfSizes(P) = rec.value

\* an unaligned range was written as three blocks or more, and the run ended
C1_Witness ==
    /\ pc = "exit0"
    /\ \E idx \in 1..k :
          /\ InSpace(sorted_ranges[idx])
          /\ sorted_ranges[idx].start.ip % 2 = 1
          /\ Cardinality(LinesFor(idx)) >= 3

SetMin(S) == CHOOSE x \in S : \A y \in S : x <= y

RECURSIVE CoverTable(_, _, _, _)
\* t lists, for x = a+1 .. b+1 in this order, the fewest aligned power-of-two
\* blocks whose union is x..b; the list is extended down to lo, trying for
\* each address every block that can start there.
CoverTable(lo, a, b, t) ==
    IF t = <<>> \/ a < lo THEN t
    ELSE LET fits == {m \in 0..AddrBits : a % Pow2(m) = 0 /\ a + Pow2(m) - 1 <= b}
         IN  CoverTable(lo, a - 1, b,
                        <<1 + SetMin({t[Pow2(m)] : m \in fits})>> \o t)

\* The fewest aligned power-of-two blocks whose union is a..b.  (Aligned
\* blocks overlap only when one holds the other, so a cover with an overlap
\* is never the smallest.)
MinCover(a, b) == CoverTable(a, b, b, <<0>>)[1]

IsPow2(c) == \E n \in 0..AddrBits : c = Pow2(n)

\* C2: the blocks written for an IPv4 record are as few as any exact cover
\* of its range by aligned power-of-two blocks, they are written in ascending
\* address order, and a range whose count is a power of two and whose start
\* is aligned to the count is written as the one block of that size.
C2_FewestBlocksAscending ==
    \A idx \in 1..k :
        LET rec == sorted_ranges[idx]
            P   == LinesFor(idx)
        IN  InSpace(rec) =>
              /\ Cardinality(P) = MinCover(rec.start.ip,
                                           rec.start.ip + rec.value - 1)
              /\ \A i, j \in P :
                    i < j => stdout[i].subnet.network_address
                                 < stdout[j].subnet.network_address
              /\ (IsPow2(rec.value) /\ rec.start.ip % rec.value = 0) =>
                    \E i \in P :
                        /\ P = {i}
                        /\ stdout[i].subnet.network_address = rec.start.ip
                        /\ BlockSize(stdout[i].subnet) = rec.value

\* four addresses starting at address 4 were written as one block
C2_Witness ==
    /\ pc = "exit0"
    /\ Len(sorted_ranges) = 1
    /\ sorted_ranges[1].type = <<"ipv4">>
    /\ sorted_ranges[1].start.ip = 4
    /\ sorted_ranges[1].value = 4
    /\ Len(stdout) = 2
    /\ stdout[2].subnet = [network_address |-> 4, prefixlen |-> AddrBits - 2]

\* C8: stdout starts with the header; every IPv4 row comes before every IPv6
\* row; within a family the rows follow the starting addresses of their
\* records, which never decrease.
C8_HeaderThenSortedFamilies ==
    /\ stdout # <<>> => stdout[1] = Header
    /\ \A i \in 2..Len(stdout) :
          /\ stdout[i] # Header
          /\ origin[i] \in 1..Len(sorted_ranges)
    /\ \A i, j \in 2..Len(stdout) :
          i < j =>
            LET ri == sorted_ranges[origin[i]]
                rj == sorted_ranges[origin[j]]
            IN  /\ ~(stdout[i].type = <<"ipv6">> /\ stdout[j].type = <<"ipv4">>)
                /\ stdout[i].type = ri.type
                /\ stdout[j].type = rj.type
                /\ stdout[i].type = stdout[j].type => ri.start.ip <= rj.start.ip

\* records that came IPv6 first and with IPv4 starts falling were all written
C8_Witness ==
    /\ pc = "exit0"
    /\ Len(ranges) = 3
    /\ ranges[1].type = <<"ipv6">>
    /\ ranges[2].type = <<"ipv4">>
    /\ ranges[3].type = <<"ipv4">>
    /\ ranges[2].start.ip > ranges[3].start.ip
    /\ Len(stdout) >= 4

\* -------------------------------------------------- rows, as the format has them
IsSummaryRow(row) ==
    Len(split(row)) >= 6 /\ split(row)[6] = <<"summary">>

\* a detail row of an address family: six fields or more, not a summary
IsIpDetailRow(row) ==
    /\ Len(split(row)) >= 6
    /\ split(row)[6] # <<"summary">>
    /\ split(row)[3] \in {<<"ipv4">>, <<"ipv6">>}

\* its start is an address of its family and its value an integer
HasValidStartAndValue(row) ==
    /\ split(row)[3] = <<"ipv4">> => IPv4Address_ok(split(row)[4])
    /\ split(row)[3] = <<"ipv6">> => IPv6Address_ok(split(row)[4])
    /\ int_ok(split(row)[5])

\* the row parse_stats_list handed to parse_record last
AtDetailRow == pc \in {"parse", "exit1"} /\ item \in 2..Len(stats_list)

\* the last record of result was made of this row
ParsedAsLast(row) ==
    /\ pc = "parse"
    /\ result # <<>>
    /\ LET rec == result[Len(result)]
           f   == split(row)
       IN  /\ rec.type = f[3]
           /\ rec.registry = f[1]
           /\ rec.cc = f[2]
           /\ rec.value = int(f[5])
           /\ Len(f) >= 7 => rec.status = f[7]
           /\ Len(f) < 8 => rec.opaque_id = None
           /\ Len(f) >= 8 => rec.opaque_id = [str |-> f[8]]

\* C3: past the version check the version record has seven fields and a
\* version of at least 2.0 and below 3.0.
C3_VersionInsideWindow ==
    (pc = "parse" /\ v # None) =>
        /\ Len(split(stats_list[1])) = 7
        /\ float_ok(split(stats_list[1])[1])
        /\ 20 <= v.version
        /\ v.version < 30

C7_ShortRowSkipped ==
    [][(/\ pc = "parse"
        /\ v # None
        /\ item < Len(stats_list)
        /\ Len(split(stats_list[item + 1])) < 6)
       => (/\ pc' = "parse"
           /\ item' = item + 1
           /\ stats_list' = stats_list
           /\ v' = v
           /\ result' = result
           /\ ranges' = ranges
           /\ stdout' = stdout
           /\ log' = Append(log, log_error("parse_record")))]_vars

\* the row after a short row became a record
C7_Witness ==
    /\ pc = "parse"
    /\ item = 3
    /\ Len(split(stats_list[2])) < 6
    /\ Len(result) = 1
    /\ ParsedAsLast(stats_list[3])

IsIpRecord(rec) ==
    /\ "type" \in DOMAIN rec
    /\ rec.type \in {<<"ipv4">>, <<"ipv6">>}
    /\ "summary" \notin DOMAIN rec

\* C9: every record kept, and every row written, is of type ipv4 or ipv6
\* and was made of a detail row of that type: the records of a source are as
\* many as its ipv4 and ipv6 detail rows read so far, whatever asn rows and
\* summary rows stand between them.
C9_OnlyIpDetailRecords ==
    /\ \A i \in 1..Len(result) : IsIpRecord(result[i])
    /\ \A i \in 1..Len(ranges) : IsIpRecord(ranges[i])
    /\ \A i \in 1..Len(sorted_ranges) :
          /\ IsIpRecord(sorted_ranges[i])
          /\ \E j \in 1..Len(ranges) : ranges[j] = sorted_ranges[i]
    /\ \A i \in 2..Len(stdout) :
          /\ stdout[i].type \in {<<"ipv4">>, <<"ipv6">>}
          /\ origin[i] \in 1..Len(sorted_ranges)
    /\ pc = "parse" =>
          /\ Len(result) =
                 Cardinality({j \in 2..item : IsIpDetailRow(stats_list[j])})
          /\ \A i \in 1..Len(result) :
                \E j \in 2..item :
                    /\ IsIpDetailRow(stats_list[j])
                    /\ result[i].type = split(stats_list[j])[3]
                    /\ result[i].registry = split(stats_list[j])[1]

\* an asn detail row and an ipv4 summary row were read and left no record
C9_Witness ==
    /\ pc = "parse"
    /\ item = 3
    /\ split(stats_list[2])[3] = <<"asn">>
    /\ ~IsSummaryRow(stats_list[2])
    /\ IsSummaryRow(stats_list[3])
    /\ split(stats_list[3])[3] = <<"ipv4">>
    /\ result = <<>>
RECURSIVE KeptRows(_)
\* the trimmed lines that are not empty and do not begin with '#', in order
KeptRows(lines) ==
    IF lines = <<>> THEN <<>>
    ELSE LET row == strip(Head(lines))
         IN  (IF row = <<>> \/ row[1] = Hash THEN <<>> ELSE <<row>>)
             \o KeptRows(Tail(lines))

\* C5: the line loop keeps exactly the trimmed lines that are not empty and
\* are no comment, in their order, and an empty line does not end the run.
C5_IngestKeepsDataRows ==
    /\ pc = "ingest" => stats_list = KeptRows(SubSeq(r.text, 1, line))
    /\ ~(pc = "uncaught" /\ exc.line = 186)

\* C4: the run ends by exit(0) after the whole CSV, or by exit(1) after an
\* error was logged; no exception leaves the program.  (The IndexError of an
\* empty line is C5's; the claim is stated here for every other exception,
\* so that what refutes it is an input without empty lines.)
C4_EndsOnlyByExit ==
    /\ pc = "uncaught" => exc.line = 186
    /\ pc = "exit1" => (log # <<>> /\ log[Len(log)].level = "ERROR")
    /\ pc = "exit0" => (/\ stdout # <<>>
                        /\ stdout[1] = Header
                        /\ k = Len(sorted_ranges))

\* C10: the urls are requested in list order, one source being parsed to its
\* end before the next is requested; stdout stays empty until all five are
\* parsed; a response whose status is not 200, and every exit(1), ends the
\* run with stdout empty and no further request.
C10_NothingWrittenBeforeAllParsed ==
    /\ fetched = [i \in 1..Len(fetched) |-> i]
    /\ Len(fetched) = IF pc = "fetch" THEN url - 1 ELSE url
    /\ pc = "fetch" => (stats_list = <<>> /\ result = <<>> /\ r = None)
    /\ stdout # <<>> =>
          /\ Len(fetched) = Len(RIRSTATS_URL)
          /\ pc \in {"rows", "exit0", "uncaught"}
    /\ pc \in {"fetch", "ingest", "parse", "write", "exit1"} => stdout = <<>>
    /\ (r # None /\ r.status_code # 200) => pc = "exit1"

\* a later registry answered 404 after records had been gathered: the run
\* ended with nothing written
C10_Witness ==
    /\ pc = "exit1"
    /\ Len(fetched) >= 2
    /\ ranges # <<>>
    /\ r # None
    /\ r.status_code = 404
    /\ stdout = <<>>
====
